---- MODULE Spec2Model ----
(***************************************************************************)
(* OpenGLContext::NativeContext (modules/juce_opengl/native/               *)
(* juce_OpenGL_osx.h): the frame pacer, the display-link bridge, context   *)
(* activation and locking, teardown, and pixel-format negotiation.         *)
(*                                                                         *)
(* Each subsystem has its own specification over the same variables:       *)
(*   SpecPacer    swapBuffers / setSwapInterval against a millisecond clock*)
(*   SpecLink     setDisplayLinkTarget, vsync callbacks and the destructor *)
(*   SpecActive   makeActive / isActive / Locker and the destructor        *)
(*   SpecAttribs  createAttribs over a family of pixel-format requests     *)
(***************************************************************************)
EXTENDS Integers, Sequences, FiniteSets, TLC

\* ------------------------------------------------------------------ bounds
\* Clock resolution: the clock is a double, so it resolves fractions of a
\* millisecond; the model counts ticks, TicksPerMs to the millisecond.
TicksPerMs == 2
\* The clock is followed for MaxTicks ticks after construction.
MaxTicks == 80

\* Display-link targets the callers register, 1 .. NumTargets.
NumTargets == 2
\* CVDisplayLink objects the platform hands out, 1 .. MaxLinks.
MaxLinks == 2
\* Threads calling into the context, 1 .. NumThreads.
NumThreads == 2

\* ------------------------------------------------------- program constants
\* Range of int, the type of elapsed (line 200).
IntMax == 2147483647
IntMin == (-IntMax) - 1
\* The tolerance band below the target interval (line 203).
ToleranceMs == 3
\* The number of fast swaps tolerated before sleeping (line 205).
UnderrunLimit == 3
\* setSwapInterval's 60 Hz reference (line 174).
MsPerSecond == 1000
ReferenceHz == 60

\* The null DisplayLinkTarget* and CVDisplayLinkRef (line 34).
nullptr == 0

\* Object handles.
Nil == "nil"
TheContext == "renderContext"
OtherContext == "otherContext"
TheView == "view"

Targets == 1 .. NumTargets
LinkIds == 1 .. MaxLinks
Threads == 1 .. NumThreads

\* The least numFramesPerSwap whose product with 1000 (line 174) exceeds the
\* range of unsigned int, so that the int product wraps to a positive value.
FirstWrapAround == 2 * (IntMax \div MsPerSecond) + 2

\* Values of numFramesPerSwap the callers pass to setSwapInterval.
SwapIntervals == {-1, 0, 1, 2, FirstWrapAround}

\* lastSwapTime as the constructor leaves it (0, the clock's epoch) when that
\* epoch lies further in the past than an int of milliseconds can hold; every
\* clock reading of the model is later.
FarPast == -1

VARIABLES
    \* frame pacer (lines 262-263)
    lastSwapTime,       \* clock reading of the last paced swap, in ticks
    minSwapTimeMs,
    underrunCounter,
    swapInterval,       \* NSOpenGLCPSwapInterval held by the platform context
    clock,              \* Time::getMillisecondCounterHiRes, in ticks
    \* pixel-format negotiation (lines 28-39, 77-112)
    request,            \* the constructor's version, pixFormat, shouldUseMultisampling
    juceOpenGL3,        \* whether the build defines JUCE_OPENGL3
    attribs,            \* NSOpenGLPixelFormatAttribute attribs[64]
    numAttribs,         \* createAttribs' write index
    \* object lifetime and the platform objects (lines 55-75, 258-261)
    pc,                 \* "alive", or the destructor's next line
    renderContext,      \* the member: Nil or TheContext
    viewContext,        \* [view openGLContext]
    ctxView,            \* [renderContext view]
    observing,          \* view observes NSViewGlobalFrameDidChangeNotification
    pixelFormat,        \* "held" or "released"
    viewAttachment,     \* "held" or "released"
    \* activation and locking (lines 121-161)
    current,            \* [NSOpenGLContext currentContext] of each thread
    lockOwner,          \* the thread holding the CGL lock of TheContext, or 0
    locker,             \* each thread's Locker: [state, cglContext]
    \* display link (lines 264-265 and the platform's link objects)
    displayLinkTarget,
    displayLinkRef,
    links,              \* each CVDisplayLink: [state, context, stops, releases]
    \* history
    op,                 \* the last operation: [name, thread, arg, res, calls]
    prevOp,             \* the operation before the last display-link operation
    fastRun             \* paced fast swaps since the last paced slow swap

vars == <<lastSwapTime, minSwapTimeMs, underrunCounter, swapInterval, clock,
          request, juceOpenGL3, attribs, numAttribs,
          pc, renderContext, viewContext, ctxView, observing, pixelFormat, viewAttachment,
          current, lockOwner, locker,
          displayLinkTarget, displayLinkRef, links,
          op, prevOp, fastRun>>

lifeVars == <<pc, renderContext, viewContext, ctxView, observing, pixelFormat, viewAttachment>>
activeVars == <<current, lockOwner, locker>>
linkVars == <<displayLinkTarget, displayLinkRef, links, prevOp>>

attribVars == <<request, juceOpenGL3, attribs, numAttribs>>

pacerVars == <<lastSwapTime, minSwapTimeMs, underrunCounter, swapInterval, clock, fastRun>>

Op(name, thread, arg, res, calls) ==
    [name |-> name, thread |-> thread, arg |-> arg, res |-> res, calls |-> calls]

\* ------------------------------------------------ pixel-format negotiation

\* NSOpenGLPixelFormatAttribute keys and profile values (NSOpenGL.h).
NSOpenGLPFADoubleBuffer == 5
NSOpenGLPFAColorSize == 8
NSOpenGLPFAAlphaSize == 11
NSOpenGLPFADepthSize == 12
NSOpenGLPFAStencilSize == 13
NSOpenGLPFAAccumSize == 14
NSOpenGLPFASampleBuffers == 55
NSOpenGLPFASamples == 56
NSOpenGLPFAMultisample == 59
NSOpenGLPFANoRecovery == 72
NSOpenGLPFAClosestPolicy == 74
NSOpenGLPFAOpenGLProfile == 99
NSOpenGLProfileVersionLegacy == 4096
NSOpenGLProfileVersion3_2Core == 12800

\* enum OpenGLVersion.
defaultGLVersion == 0
openGL3_2 == 1

\* The size of the constructor's attribute buffer (line 36).
AttribCapacity == 64

\* The pixel-format requests followed: OpenGLPixelFormat's int fields.
PixelFormats ==
    [redBits : {5, 8}, greenBits : {8}, blueBits : {5, 8}, alphaBits : {0, 8},
     depthBufferBits : {16, 56}, stencilBufferBits : {0, 8},
     accumulationBufferRedBits : {0, 16}, accumulationBufferGreenBits : {0, 16},
     accumulationBufferBlueBits : {0, 16}, accumulationBufferAlphaBits : {0, 14},
     multisamplingLevel : {0, 2, 4}]

Requests ==
    [version : {defaultGLVersion, openGL3_2},
     pixFormat : PixelFormats,
     shouldUseMultisampling : BOOLEAN]

\* A plain request: 8-bit colour channels, a 16-bit depth buffer, no
\* multisampling, the default version.
DefaultRequest ==
    [version |-> defaultGLVersion,
     pixFormat |-> [redBits |-> 8, greenBits |-> 8, blueBits |-> 8, alphaBits |-> 8,
                    depthBufferBits |-> 16, stencilBufferBits |-> 0,
                    accumulationBufferRedBits |-> 0, accumulationBufferGreenBits |-> 0,
                    accumulationBufferBlueBits |-> 0, accumulationBufferAlphaBits |-> 0,
                    multisamplingLevel |-> 0],
     shouldUseMultisampling |-> FALSE]

\* NSOpenGLPixelFormatAttribute attribs[64] = { 0 }  (line 36).
ZeroAttribs == [i \in 0 .. AttribCapacity - 1 |-> 0]

Store_SkippingOne(st, value) ==
    IF st.num < AttribCapacity
    THEN [st EXCEPT !.buf[st.num] = value, !.num = @ + 2,
                    !.writes = Append(@, st.num)]
    ELSE [st EXCEPT !.overflow = TRUE, !.num = @ + 2,
                    !.writes = Append(@, st.num)]

\* attribs [numAttribs++] = value.  A write past the buffer is undefined
\* behaviour; it is recorded in `overflow` and leaves the buffer alone.
\* `writes` lists the indices written, in the order of the writes.
Store(st, value) ==
    IF st.num < AttribCapacity
    THEN [st EXCEPT !.buf[st.num] = value, !.num = @ + 1,
                    !.writes = Append(@, st.num)]
    ELSE [st EXCEPT !.overflow = TRUE, !.num = @ + 1,
                    !.writes = Append(@, st.num)]

RECURSIVE StoreAll(_, _)
StoreAll(st, values) ==
    IF values = <<>> THEN st
    ELSE StoreAll(Store(st, Head(values)), Tail(values))

ProfileAttribs_CoreOnly(version, gl3) ==
    IF gl3 /\ version >= openGL3_2
    THEN <<NSOpenGLPFAOpenGLProfile, NSOpenGLProfileVersion3_2Core>>
    ELSE <<>>

\* Lines 83-87.
ProfileAttribs(version, gl3) ==
    IF gl3
    THEN <<NSOpenGLPFAOpenGLProfile,
           IF version >= openGL3_2 THEN NSOpenGLProfileVersion3_2Core
                                   ELSE NSOpenGLProfileVersionLegacy>>
    ELSE <<>>

ColorSizeValue_NoBlue(pf) == pf.redBits + pf.greenBits

\* Line 93.
ColorSizeValue(pf) == pf.redBits + pf.greenBits + pf.blueBits

\* Lines 101-102.
AccumSizeValue(pf) ==
    pf.accumulationBufferRedBits + pf.accumulationBufferGreenBits
        + pf.accumulationBufferBlueBits + pf.accumulationBufferAlphaBits

\* Lines 89-102.
FixedAttribs(pf) ==
    <<NSOpenGLPFADoubleBuffer, NSOpenGLPFAClosestPolicy, NSOpenGLPFANoRecovery,
      NSOpenGLPFAColorSize, ColorSizeValue(pf),
      NSOpenGLPFAAlphaSize, pf.alphaBits,
      NSOpenGLPFADepthSize, pf.depthBufferBits,
      NSOpenGLPFAStencilSize, pf.stencilBufferBits,
      NSOpenGLPFAAccumSize, AccumSizeValue(pf)>>

MultisampleAttribs_ByLevel(pf, shouldUseMultisampling) ==
    IF pf.multisamplingLevel > 0
    THEN <<NSOpenGLPFAMultisample, NSOpenGLPFASampleBuffers, 1,
           NSOpenGLPFASamples, pf.multisamplingLevel>>
    ELSE <<>>

\* Lines 104-111.
MultisampleAttribs(pf, shouldUseMultisampling) ==
    IF shouldUseMultisampling
    THEN <<NSOpenGLPFAMultisample, NSOpenGLPFASampleBuffers, 1,
           NSOpenGLPFASamples, pf.multisamplingLevel>>
    ELSE <<>>

\* createAttribs: the writes in the order the code makes them.
createAttribs(buf, version, pixFormat, shouldUseMultisampling, gl3) ==
    StoreAll(StoreAll(StoreAll([buf |-> buf, num |-> 0, overflow |-> FALSE,
                                writes |-> <<>>],
                               ProfileAttribs(version, gl3)),
                      FixedAttribs(pixFormat)),
             MultisampleAttribs(pixFormat, shouldUseMultisampling))

\* The constructor's call of createAttribs (lines 36-37).
CallCreateAttribs ==
    /\ op.name = "declareAttribs"
    /\ LET st == createAttribs(attribs, request.version, request.pixFormat,
                               request.shouldUseMultisampling, juceOpenGL3)
       IN /\ attribs' = st.buf
          /\ numAttribs' = st.num
          /\ op' = Op("createAttribs", 0, 0, IF st.overflow THEN 1 ELSE 0, <<>>)
    /\ UNCHANGED <<request, juceOpenGL3>>
    /\ UNCHANGED <<pacerVars, lifeVars, activeVars, linkVars>>

\* ------------------------------------------------------------ frame pacer

\* C++ integer division truncates towards zero.
TruncDiv(a, b) == IF a >= 0 THEN a \div b ELSE -((-a) \div b)

\* juce::isPositiveAndBelow: 0 <= valueToTest < upperLimit.
isPositiveAndBelow(valueToTest, upperLimit) ==
    valueToTest >= 0 /\ valueToTest < upperLimit

\* (int) (now - lastSwapTime): the difference truncated to whole milliseconds.
\* A difference beyond the range of int makes the conversion undefined; the
\* builds produce INT_MIN (x86) or INT_MAX (saturating targets).
ElapsedOutcomes(now, last) ==
    IF last = FarPast THEN {IntMin, IntMax}
    ELSE {(now - last) \div TicksPerMs}

\* The fast-swap test of line 203.
SwapWasFast(elapsed, minSwap) == isPositiveAndBelow(elapsed, minSwap - ToleranceMs)

MustSleep_AtLimit(counter) == counter >= UnderrunLimit

\* The sleep test of line 205.
MustSleep(counter) == counter > UnderrunLimit

PacingOn_ZeroIncluded(minSwap) == minSwap >= 0

\* The guard of line 197.
PacingOn(minSwap) == minSwap > 0

StoredSwapTime_Forgotten(now) == FarPast

\* lastSwapTime = now (line 201).
StoredSwapTime(now) == now

CounterAfterSlowSwap_Kept(counter) == counter

\* underrunCounter = 0 (line 212).
CounterAfterSlowSwap(counter) == 0

CounterAfterFastSwap_ByTwo(counter) == counter + 2

\* ++underrunCounter (line 208).
CounterAfterFastSwap(counter) == counter + 1

\* sleepIfRenderingTooFast, reached from swapBuffers after flushBuffer.
sleepIfRenderingTooFast ==
    IF PacingOn(minSwapTimeMs)
    THEN \E elapsed \in ElapsedOutcomes(clock, lastSwapTime) :
           /\ lastSwapTime' = StoredSwapTime(clock)
           /\ IF SwapWasFast(elapsed, minSwapTimeMs)
              THEN /\ fastRun' = fastRun + 1
                   /\ IF MustSleep(underrunCounter)
                      THEN /\ clock + (minSwapTimeMs - elapsed) * TicksPerMs <= MaxTicks
                           /\ clock' = clock + (minSwapTimeMs - elapsed) * TicksPerMs
                           /\ underrunCounter' = underrunCounter
                           /\ op' = Op("swapBuffers", 0, elapsed, minSwapTimeMs - elapsed,
                                       <<"flushBuffer", "getMillisecondCounterHiRes", "sleep">>)
                      ELSE /\ underrunCounter' = CounterAfterFastSwap(underrunCounter)
                           /\ clock' = clock
                           /\ op' = Op("swapBuffers", 0, elapsed, 0,
                                       <<"flushBuffer", "getMillisecondCounterHiRes">>)
              ELSE /\ underrunCounter' = CounterAfterSlowSwap(underrunCounter)
                   /\ fastRun' = 0
                   /\ clock' = clock
                   /\ op' = Op("swapBuffers", 0, elapsed, 0,
                               <<"flushBuffer", "getMillisecondCounterHiRes">>)
    ELSE /\ UNCHANGED <<lastSwapTime, underrunCounter, clock, fastRun>>
         /\ op' = Op("swapBuffers", 0, 0, 0, <<"flushBuffer">>)

swapBuffers ==
    /\ pc = "alive"
    /\ sleepIfRenderingTooFast
    /\ UNCHANGED <<minSwapTimeMs, swapInterval>>
    /\ UNCHANGED <<attribVars, lifeVars, activeVars, linkVars>>

\* The low 32 bits of n * k as a two's-complement int, for 0 < k < 2^15,
\* computed on 16-bit halves of n.
WrappedProduct(n, k) ==
    LET low == (n % 65536) * k
        high == ((n \div 65536) * k + (low \div 65536)) % 65536
    IN  (IF high >= 32768 THEN high - 65536 ELSE high) * 65536 + (low % 65536)

\* numFramesPerSwap * 1000 in int arithmetic (line 174).  A product outside
\* the range of int is undefined: the multiply instruction leaves the wrapped
\* value, and a build that traps on overflow does not return.
IntProduct(n, k) ==
    IF n <= IntMax \div k /\ n >= -(IntMax \div k)
    THEN {n * k}
    ELSE {WrappedProduct(n, k)}

\* [renderContext setValues: forParameter: NSOpenGLCPSwapInterval] (lines
\* 175-176): the platform context takes the value; a nil context takes none.
PlatformInterval(old, numFramesPerSwap) ==
    IF renderContext # Nil THEN numFramesPerSwap ELSE old

\* Lines 172-179.
setSwapInterval(numFramesPerSwap) ==
    /\ pc = "alive"
    /\ \E product \in IntProduct(numFramesPerSwap, MsPerSecond) :
          minSwapTimeMs' = TruncDiv(product, ReferenceHz)
    /\ swapInterval' = PlatformInterval(swapInterval, numFramesPerSwap)
    /\ op' = Op("setSwapInterval", 0, numFramesPerSwap, 1, <<"setValues">>)
    /\ UNCHANGED <<lastSwapTime, underrunCounter, clock, fastRun>>
    /\ UNCHANGED <<attribVars, lifeVars, activeVars, linkVars>>

\* Lines 181-188: numFrames starts at 0 and a nil context leaves it there.
getSwapInterval ==
    /\ pc = "alive"
    /\ op' = Op("getSwapInterval", 0, 0,
                IF renderContext # Nil THEN swapInterval ELSE 0, <<"getValues">>)
    /\ UNCHANGED <<pacerVars, attribVars, lifeVars, activeVars, linkVars>>

\* The clock advances by one tick.
Tick ==
    /\ clock < MaxTicks
    /\ clock' = clock + 1
    /\ op' = Op("tick", 0, 0, 0, <<>>)
    /\ UNCHANGED <<lastSwapTime, minSwapTimeMs, underrunCounter, swapInterval, fastRun>>
    /\ UNCHANGED <<attribVars, lifeVars, activeVars, linkVars>>

\* ------------------------------------------------------------- destructor

\* ~NativeContext, one line at a time; a message to nil does nothing.
DestructorStep(from, to, call) ==
    /\ pc = from
    /\ pc' = to
    /\ op' = Op("~NativeContext", 0, 0, 0, <<call>>)
    /\ UNCHANGED <<pacerVars, attribVars, activeVars, linkVars>>

\* Line 69.
destroy_removeObserver ==
    /\ DestructorStep("alive", "line70", "removeObserver")
    /\ observing' = FALSE
    /\ UNCHANGED <<renderContext, viewContext, ctxView, pixelFormat, viewAttachment>>

\* Line 70.
destroy_clearDrawable ==
    /\ DestructorStep("line70", "line71", "clearDrawable")
    /\ ctxView' = Nil
    /\ UNCHANGED <<renderContext, viewContext, observing, pixelFormat, viewAttachment>>

\* Line 71.
destroy_setViewNil ==
    /\ DestructorStep("line71", "line72", "setView")
    /\ ctxView' = Nil
    /\ UNCHANGED <<renderContext, viewContext, observing, pixelFormat, viewAttachment>>

destroy_setOpenGLContextNil_Skipped ==
    /\ DestructorStep("line72", "line73", "setOpenGLContext")
    /\ UNCHANGED <<renderContext, viewContext, ctxView, observing, pixelFormat, viewAttachment>>

\* Line 72.
destroy_setOpenGLContextNil ==
    /\ DestructorStep("line72", "line73", "setOpenGLContext")
    /\ viewContext' = Nil
    /\ UNCHANGED <<renderContext, ctxView, observing, pixelFormat, viewAttachment>>

\* Line 73.
destroy_dropRenderContext ==
    /\ DestructorStep("line73", "line74", "renderContext = nil")
    /\ renderContext' = Nil
    /\ UNCHANGED <<viewContext, ctxView, observing, pixelFormat, viewAttachment>>

\* Line 74.
destroy_releasePixelFormat ==
    /\ DestructorStep("line74", "members", "release")
    /\ pixelFormat' = "released"
    /\ UNCHANGED <<renderContext, viewContext, ctxView, observing, viewAttachment>>

\* The members' destructors: viewAttachment drops its reference (line 261).
destroy_members ==
    /\ DestructorStep("members", "destroyed", "viewAttachment")
    /\ viewAttachment' = "released"
    /\ UNCHANGED <<renderContext, viewContext, ctxView, observing, pixelFormat>>

Destructor ==
    \/ destroy_removeObserver
    \/ destroy_clearDrawable
    \/ destroy_setViewNil
    \/ destroy_setOpenGLContextNil
    \/ destroy_dropRenderContext
    \/ destroy_releasePixelFormat
    \/ destroy_members

\* ----------------------------------------------------------- display link

NoLink == [state |-> "none", context |-> nullptr, stops |-> 0, releases |-> 0,
           firing |-> FALSE]

\* The next CVDisplayLink the platform hands out.
Created == Cardinality({id \in LinkIds : links[id].state # "none"})

\* CVDisplayLinkStop then CVDisplayLinkRelease (lines 239-240).
StopAndRelease(ls, ref) ==
    [ls EXCEPT ![ref].state = "released", ![ref].stops = @ + 1, ![ref].releases = @ + 1]

StopReturns_AtOnce(link) == TRUE

\* CVDisplayLinkStop (line 239) returns once the link's thread is outside the
\* output callback: CoreVideo holds the link's lock around the callback.
StopReturns(link) == ~link.firing

RefAfterRelease_Kept(ref) == ref

\* displayLinkRef = nullptr (line 241).
RefAfterRelease(ref) == nullptr

\* Lines 235-245.
setDisplayLinkTarget_null ==
    /\ pc = "alive"
    /\ IF displayLinkRef # nullptr
       THEN /\ StopReturns(links[displayLinkRef])
            /\ links' = StopAndRelease(links, displayLinkRef)
            /\ displayLinkRef' = RefAfterRelease(displayLinkRef)
            /\ op' = Op("setDisplayLinkTarget", 0, nullptr, 0,
                        <<"CVDisplayLinkStop", "CVDisplayLinkRelease">>)
       ELSE /\ UNCHANGED <<links, displayLinkRef>>
            /\ op' = Op("setDisplayLinkTarget", 0, nullptr, 0, <<>>)
    /\ displayLinkTarget' = nullptr
    /\ prevOp' = op
    /\ UNCHANGED <<pacerVars, attribVars, lifeVars, activeVars>>

\* The callback context a call with an existing link registers: none, the
\* link keeps the context given when it was created (lines 247-253).
ContextAfterSet(old, target) == old

\* CVDisplayLinkStart (line 255): a stopped link runs if the platform starts
\* it; a running link stays running.
Started(link, ok) ==
    IF link.state = "stopped" /\ ok THEN [link EXCEPT !.state = "running"] ELSE link

MustCreate_Always(ref) == TRUE

\* if (displayLinkRef == nullptr) (line 247).
MustCreate(ref) == ref = nullptr

\* Lines 247-255.  createOk and startOk are the platform's answers to
\* CVDisplayLinkCreateWithCGDisplay and CVDisplayLinkStart, which the code
\* does not look at.
setDisplayLinkTarget_target(target, createOk, startOk) ==
    /\ pc = "alive"
    /\ target # nullptr
    /\ IF MustCreate(displayLinkRef)
       THEN IF createOk
            THEN /\ Created < MaxLinks
                 /\ displayLinkRef' = Created + 1
                 /\ links' = [links EXCEPT ![Created + 1] =
                                 Started([NoLink EXCEPT !.state = "stopped",
                                                        !.context = target], startOk)]
                 /\ op' = Op("setDisplayLinkTarget", 0, target, 0,
                             <<"CVDisplayLinkCreateWithCGDisplay",
                               "CVDisplayLinkSetOutputCallback",
                               "CVDisplayLinkSetCurrentCGDisplayFromOpenGLContext",
                               "CVDisplayLinkStart">>)
            ELSE /\ UNCHANGED <<displayLinkRef, links>>
                 /\ ~startOk      \* no link: the calls on the null ref fail
                 /\ op' = Op("setDisplayLinkTarget", 0, target, 0,
                             <<"CVDisplayLinkCreateWithCGDisplay",
                               "CVDisplayLinkSetOutputCallback",
                               "CVDisplayLinkSetCurrentCGDisplayFromOpenGLContext",
                               "CVDisplayLinkStart">>)
       ELSE /\ UNCHANGED displayLinkRef
            /\ createOk           \* nothing is created: the answer is not asked for
            /\ links' = [links EXCEPT ![displayLinkRef] =
                            Started([@ EXCEPT !.context = ContextAfterSet(@, target)],
                                    startOk)]
            /\ op' = Op("setDisplayLinkTarget", 0, target, 0, <<"CVDisplayLinkStart">>)
    /\ displayLinkTarget' = target
    /\ prevOp' = op
    /\ UNCHANGED <<pacerVars, attribVars, lifeVars, activeVars>>

\* The platform's display-link thread, at a vsync of a running link, calls
\* displayLinkOutputCallback with the context registered for the link (lines
\* 225-227); the caller of setDisplayLinkTarget runs on alongside.
displayLinkOutputCallback_enter(id) ==
    /\ links[id].state = "running"
    /\ ~links[id].firing
    /\ links' = [links EXCEPT ![id].firing = TRUE]
    /\ op' = Op("vsync", 0, id, 0, <<>>)
    /\ prevOp' = op
    /\ UNCHANGED <<displayLinkTarget, displayLinkRef>>
    /\ UNCHANGED <<pacerVars, attribVars, lifeVars, activeVars>>

\* target->displayLink() and the return to the platform (lines 229-230).
displayLinkOutputCallback(id) ==
    /\ links[id].firing
    /\ links' = [links EXCEPT ![id].firing = FALSE]
    /\ op' = Op("displayLinkOutputCallback", 0, id, links[id].context, <<"displayLink">>)
    /\ prevOp' = op
    /\ UNCHANGED <<displayLinkTarget, displayLinkRef>>
    /\ UNCHANGED <<pacerVars, attribVars, lifeVars, activeVars>>

\* -------------------------------------------------- activation and locking

\* isActive (lines 137-140).
isActive(t) == current[t] = renderContext

BoundView_NoRebind(rc, bound) == bound

\* Lines 125-126: [renderContext view] after the test and the rebinding; a
\* nil renderContext has no view and ignores setView.
BoundView(rc, bound) ==
    IF rc # Nil /\ bound # TheView THEN TheView ELSE bound

\* makeActive (lines 121-135) on thread t.
makeActive(t) ==
    /\ pc = "alive"
    /\ ctxView' = BoundView(renderContext, ctxView)
    /\ IF viewContext # Nil
       THEN /\ current' = [current EXCEPT ![t] = viewContext]
            /\ op' = Op("makeActive", t, 0, 1,
                        IF ctxView' # ctxView THEN <<"setView", "makeCurrentContext">>
                                              ELSE <<"makeCurrentContext">>)
       ELSE /\ current' = current
            /\ op' = Op("makeActive", t, 0, 0,
                        IF ctxView' # ctxView THEN <<"setView">> ELSE <<>>)
    /\ UNCHANGED <<pc, renderContext, viewContext, observing, pixelFormat, viewAttachment>>
    /\ UNCHANGED <<lockOwner, locker>>
    /\ UNCHANGED <<pacerVars, attribVars, linkVars>>

\* A call of isActive on thread t.
isActiveCall(t) ==
    /\ pc = "alive"
    /\ op' = Op("isActive", t, 0, IF isActive(t) THEN 1 ELSE 0, <<>>)
    /\ UNCHANGED <<pacerVars, attribVars, lifeVars, activeVars, linkVars>>

\* deactivateCurrentContext (lines 142-145), a static function.
ClearCurrent(t, name) ==
    /\ current' = [current EXCEPT ![t] = Nil]
    /\ op' = Op(name, t, 0, 0, <<"clearCurrentContext">>)
    /\ UNCHANGED <<lockOwner, locker>>
    /\ UNCHANGED <<pacerVars, attribVars, lifeVars, linkVars>>

deactivateCurrentContext(t) == ClearCurrent(t, "deactivateCurrentContext")

\* shutdownOnRenderThread (line 115).
shutdownOnRenderThread(t) ==
    /\ pc = "alive"
    /\ ClearCurrent(t, "shutdownOnRenderThread")

\* Thread t activates the context of another NativeContext.
makeActiveOther(t) ==
    /\ current' = [current EXCEPT ![t] = OtherContext]
    /\ op' = Op("makeActiveOther", t, 0, 1, <<"makeCurrentContext">>)
    /\ UNCHANGED <<lockOwner, locker>>
    /\ UNCHANGED <<pacerVars, attribVars, lifeVars, linkVars>>

\* Another caller takes the render context's drawable away from the view.
viewChangedByOther ==
    /\ pc = "alive"
    /\ ctxView = TheView
    /\ ctxView' = Nil
    /\ op' = Op("viewChangedByOther", 0, 0, 0, <<"clearDrawable">>)
    /\ UNCHANGED <<pc, renderContext, viewContext, observing, pixelFormat, viewAttachment>>
    /\ UNCHANGED <<pacerVars, attribVars, activeVars, linkVars>>

\* [nc.renderContext CGLContextObj]: the CGL object of the context, null for a
\* nil context.
CGLContextObj(rc) == rc

CanLock_Always(cgl) == TRUE

\* CGLLockContext returns once no other thread holds the context's lock.
CanLock(cgl) == lockOwner = 0

\* The handle ~Locker unlocks: the member set at construction (line 156).
UnlockedHandle(t) == locker[t].cglContext

\* Locker's member initialiser (line 149).
Locker_init(t) ==
    /\ pc = "alive"
    /\ locker[t].state = "none"
    /\ locker' = [locker EXCEPT ![t] = [state |-> "waiting",
                                        cglContext |-> CGLContextObj(renderContext)]]
    /\ op' = Op("Locker::cglContext", t, 0, 0, <<"CGLContextObj">>)
    /\ UNCHANGED <<current, lockOwner>>
    /\ UNCHANGED <<pacerVars, attribVars, lifeVars, linkVars>>

\* CGLLockContext (line 151); a null context is refused and nothing is locked.
Locker_lock(t) ==
    /\ locker[t].state = "waiting"
    /\ IF locker[t].cglContext = Nil
       THEN lockOwner' = lockOwner
       ELSE /\ CanLock(locker[t].cglContext)
            /\ lockOwner' = t
    /\ locker' = [locker EXCEPT ![t].state = "inside"]
    /\ op' = Op("Locker", t, 0, 0, <<"CGLLockContext">>)
    /\ UNCHANGED current
    /\ UNCHANGED <<pacerVars, attribVars, lifeVars, linkVars>>

\* ~Locker (lines 154-157).
Locker_destroy(t) ==
    /\ locker[t].state = "inside"
    /\ lockOwner' = IF UnlockedHandle(t) # Nil /\ lockOwner = t THEN 0 ELSE lockOwner
    /\ locker' = [locker EXCEPT ![t] = [state |-> "none", cglContext |-> Nil]]
    /\ op' = Op("~Locker", t, 0, 0, <<"CGLUnlockContext">>)
    /\ UNCHANGED current
    /\ UNCHANGED <<pacerVars, attribVars, lifeVars, linkVars>>

\* ---------------------------------------------------------- specifications

\* The constructor's initialiser list (line 33); the clock's epoch is either
\* the moment of construction or too far back for an int of milliseconds.
PacerConstructed ==
    /\ lastSwapTime \in {0, FarPast}
    /\ minSwapTimeMs = 0
    /\ underrunCounter = 0
    /\ swapInterval = 0
    /\ clock = 0
    /\ fastRun = 0

\* After construction with the default request.
AttribsConstructed ==
    /\ request = DefaultRequest
    /\ juceOpenGL3 = FALSE
    /\ attribs = createAttribs(ZeroAttribs, DefaultRequest.version, DefaultRequest.pixFormat,
                               DefaultRequest.shouldUseMultisampling, FALSE).buf
    /\ numAttribs = createAttribs(ZeroAttribs, DefaultRequest.version, DefaultRequest.pixFormat,
                                  DefaultRequest.shouldUseMultisampling, FALSE).num

\* The constructor's results (lines 34, 55-64): creating the render context
\* can fail, which leaves renderContext nil; nothing binds the context to the
\* view yet.
ContextConstructed ==
    /\ pc = "alive"
    /\ renderContext \in {TheContext, Nil}
    /\ viewContext = renderContext
    /\ ctxView = Nil
    /\ observing = TRUE
    /\ pixelFormat = "held"
    /\ viewAttachment = "held"
    /\ current = [t \in Threads |-> Nil]
    /\ lockOwner = 0
    /\ locker = [t \in Threads |-> [state |-> "none", cglContext |-> Nil]]
    /\ displayLinkTarget = nullptr
    /\ displayLinkRef = nullptr
    /\ links = [id \in LinkIds |-> NoLink]
    /\ prevOp = Op("construct", 0, 0, 0, <<>>)

\* The constructor is entered with a request; the buffer is zeroed (line 36).
\* createAttribs reads no member, so the members are given the values the
\* constructor goes on to set.
InitAttribs ==
    /\ request \in Requests
    /\ juceOpenGL3 \in BOOLEAN
    /\ attribs = ZeroAttribs
    /\ numAttribs = 0
    /\ PacerConstructed
    /\ lastSwapTime = 0
    /\ ContextConstructed
    /\ renderContext = TheContext
    /\ op = Op("declareAttribs", 0, 0, 0, <<>>)

NextAttribs == CallCreateAttribs

SpecAttribs == InitAttribs /\ [][NextAttribs]_vars

InitLink ==
    /\ PacerConstructed
    /\ lastSwapTime = 0
    /\ AttribsConstructed
    /\ ContextConstructed
    /\ op = Op("construct", 0, 0, 0, <<>>)

NextLink ==
    \/ setDisplayLinkTarget_null
    \/ \E target \in Targets, createOk, startOk \in BOOLEAN :
           setDisplayLinkTarget_target(target, createOk, startOk)
    \/ \E id \in LinkIds : displayLinkOutputCallback_enter(id)
    \/ \E id \in LinkIds : displayLinkOutputCallback(id)
    \/ Destructor

SpecLink == InitLink /\ [][NextLink]_vars

InitActive ==
    /\ PacerConstructed
    /\ lastSwapTime = 0
    /\ AttribsConstructed
    /\ ContextConstructed
    /\ op = Op("construct", 0, 0, 0, <<>>)

NextActive ==
    \/ \E t \in Threads :
          \/ makeActive(t)
          \/ isActiveCall(t)
          \/ deactivateCurrentContext(t)
          \/ shutdownOnRenderThread(t)
          \/ makeActiveOther(t)
          \/ Locker_init(t)
          \/ Locker_lock(t)
          \/ Locker_destroy(t)
    \/ viewChangedByOther
    \/ Destructor

SpecActive == InitActive /\ [][NextActive]_vars

InitPacer ==
    /\ PacerConstructed
    /\ AttribsConstructed
    /\ ContextConstructed
    /\ op = Op("construct", 0, 0, 0, <<>>)

NextPacer ==
    \/ swapBuffers
    \/ \E n \in SwapIntervals : setSwapInterval(n)
    \/ getSwapInterval
    \/ Tick

SpecPacer == InitPacer /\ [][NextPacer]_vars

\* ------------------------------------------------------------------ claims

\* The platform calls the last operation made include `call`.
Called(call) == \E i \in DOMAIN op.calls : op.calls[i] = call

IsSwap == op.name = "swapBuffers"
Measured == Called("getMillisecondCounterHiRes")
DidSleep == Called("sleep")

\* C1: with pacing on, a swap measured fast (elapsed in [0, m-3)) sleeps if
\* and only if it is at least the fifth fast swap in a row counted from a
\* zero underrun counter, and then it sleeps exactly m - elapsed milliseconds;
\* the first four fast swaps of a run do not sleep, and no swap sleeps unless
\* it is such a fast swap reached with underrunCounter > 3.
C1_FifthFastSwapSleeps ==
    /\ (IsSwap /\ Measured /\ minSwapTimeMs > 0
             /\ op.arg >= 0 /\ op.arg < minSwapTimeMs - 3)
         => IF fastRun >= 5
            THEN DidSleep /\ op.res = minSwapTimeMs - op.arg
            ELSE ~DidSleep
    /\ (IsSwap /\ DidSleep)
         => /\ underrunCounter > 3
            /\ op.arg >= 0 /\ op.arg < minSwapTimeMs - 3

C1_Witness ==
    /\ IsSwap /\ minSwapTimeMs = 16 /\ op.arg = 2
    /\ fastRun = 5 /\ DidSleep /\ op.res = 14

\* C2: a swap made while minSwapTimeMs <= 0 does not sleep, does not read
\* the clock and leaves underrunCounter and lastSwapTime as they were.
C2_UnpacedSwapChangesNothing ==
    [][(op'.name = "swapBuffers" /\ minSwapTimeMs <= 0)
          => /\ underrunCounter' = underrunCounter
             /\ lastSwapTime' = lastSwapTime
             /\ clock' = clock
             /\ op'.calls = <<"flushBuffer">>]_vars

C2_Witness ==
    /\ IsSwap /\ ~Measured /\ ~DidSleep
    /\ minSwapTimeMs < 0 /\ underrunCounter = 4 /\ lastSwapTime > 0

\* The attribute list as the platform reads it: a zero ends the list, the
\* boolean keys stand alone and every other key is followed by its value.
BooleanKeys ==
    {NSOpenGLPFADoubleBuffer, NSOpenGLPFAClosestPolicy, NSOpenGLPFANoRecovery,
     NSOpenGLPFAMultisample}

RECURSIVE ReadAttribs(_, _)
ReadAttribs(buf, i) ==
    IF i >= AttribCapacity \/ buf[i] = 0 THEN <<>>
    ELSE IF buf[i] \in BooleanKeys
         THEN <<[key |-> buf[i], value |-> 0, at |-> i]>> \o ReadAttribs(buf, i + 1)
         ELSE <<[key |-> buf[i],
                 value |-> IF i + 1 < AttribCapacity THEN buf[i + 1] ELSE 0,
                 at |-> i]>> \o ReadAttribs(buf, i + 2)

Entries == ReadAttribs(attribs, 0)
AttribsCreated == op.name = "createAttribs"
MultisampleKeys == {NSOpenGLPFAMultisample, NSOpenGLPFASampleBuffers, NSOpenGLPFASamples}

\* C9: without multisampling the attribute list holds no Multisample,
\* SampleBuffers or Samples entry; with it the list ends with the block
\* Multisample, SampleBuffers, 1, Samples, multisamplingLevel, and holds no
\* other entry with one of these keys.
C9_MultisampleBlock ==
    AttribsCreated =>
        LET n == Len(Entries) IN
        IF ~request.shouldUseMultisampling
        THEN \A i \in 1 .. n : Entries[i].key \notin MultisampleKeys
        ELSE /\ n >= 3
             /\ Entries[n - 2].key = NSOpenGLPFAMultisample
             /\ Entries[n - 1].key = NSOpenGLPFASampleBuffers
             /\ Entries[n - 1].value = 1
             /\ Entries[n].key = NSOpenGLPFASamples
             /\ Entries[n].value = request.pixFormat.multisamplingLevel
             /\ \A i \in 1 .. n - 3 : Entries[i].key \notin MultisampleKeys
             /\ numAttribs >= 5
             /\ Entries[n - 2].at = numAttribs - 5
             /\ [i \in 1 .. 5 |-> attribs[numAttribs - 6 + i]]
                    = <<59, 55, 1, 56, request.pixFormat.multisamplingLevel>>
             /\ attribs[numAttribs] = 0

C9_Witness ==
    /\ AttribsCreated
    /\ request.shouldUseMultisampling
    /\ request.pixFormat.multisamplingLevel = 4
    /\ request.pixFormat.depthBufferBits = 56
    /\ attribs[numAttribs - 1] = 4
    /\ attribs[numAttribs - 5] = 59

\* C10: the list holds, after the profile entry if there is one, the keys
\* DoubleBuffer, ClosestPolicy, NoRecovery, ColorSize, AlphaSize, DepthSize,
\* StencilSize, AccumSize in this order; ColorSize's value is red + green +
\* blue, AlphaSize's is alphaBits and AccumSize's is the sum of the four
\* accumulation depths.
C10_SizeAttribs ==
    AttribsCreated =>
        LET pf == request.pixFormat
            b == IF Len(Entries) > 0 /\ Entries[1].key = NSOpenGLPFAOpenGLProfile
                 THEN 1 ELSE 0
        IN /\ Len(Entries) >= b + 8
           /\ [i \in 1 .. 8 |-> Entries[b + i].key] = <<5, 74, 72, 8, 11, 12, 13, 14>>
           /\ Entries[b + 4].value = pf.redBits + pf.greenBits + pf.blueBits
           /\ Entries[b + 5].value = pf.alphaBits
           /\ Entries[b + 8].value =
                  pf.accumulationBufferRedBits + pf.accumulationBufferGreenBits
                      + pf.accumulationBufferBlueBits + pf.accumulationBufferAlphaBits

C10_Witness ==
    /\ AttribsCreated
    /\ juceOpenGL3
    /\ Entries[5].key = 8 /\ Entries[5].value = 18
    /\ Entries[9].key = 14 /\ Entries[9].value = 62

\* ------------------------------------------------- claims: the display link

IsSetTarget == op.name = "setDisplayLinkTarget"
IsCallback == op.name = "displayLinkOutputCallback"

\* C3: every vsync callback delivered while the context is alive invokes
\* displayLink() on the stored displayLinkTarget.
C3_CallbackReachesStoredTarget ==
    (IsCallback /\ pc = "alive") => op.res = displayLinkTarget

\* C4: setDisplayLinkTarget(nullptr) leaves displayLinkRef and
\* displayLinkTarget null; it stops and releases the link exactly when one
\* exists, so no link is stopped or released twice; called with both already
\* null it makes no platform call and changes nothing.
C4_ClearIsIdempotent ==
    /\ [](\A id \in LinkIds : links[id].stops <= 1 /\ links[id].releases <= 1)
    /\ [][(op'.name = "setDisplayLinkTarget" /\ op'.arg = 0)
            => /\ displayLinkRef' = 0
               /\ displayLinkTarget' = 0
               /\ IF displayLinkRef # 0
                  THEN /\ op'.calls = <<"CVDisplayLinkStop", "CVDisplayLinkRelease">>
                       /\ links'[displayLinkRef].state = "released"
                       /\ links'[displayLinkRef].releases = links[displayLinkRef].releases + 1
                       /\ \A id \in LinkIds \ {displayLinkRef} : links'[id] = links[id]
                  ELSE /\ op'.calls = <<>>
                       /\ links' = links
               /\ (displayLinkRef = 0 /\ displayLinkTarget = 0)
                    => UNCHANGED <<displayLinkRef, displayLinkTarget, links, lifeVars>>]_vars

\* A second setDisplayLinkTarget(nullptr) in a row, after the first one
\* released a link.
C4_Witness ==
    /\ IsSetTarget /\ op.arg = 0 /\ op.calls = <<>>
    /\ prevOp.name = "setDisplayLinkTarget" /\ prevOp.arg = 0
    /\ prevOp.calls = <<"CVDisplayLinkStop", "CVDisplayLinkRelease">>
    /\ displayLinkRef = 0 /\ displayLinkTarget = 0
    /\ \E id \in LinkIds : links[id].releases = 1

\* C5: no display link is running once the destructor has dropped the render
\* context or released the pixel format.
C5_NoLinkRunsPastTeardown ==
    \A id \in LinkIds :
        links[id].state = "running"
            => /\ pixelFormat = "held"
               /\ pc \notin {"line74", "members", "destroyed"}

\* ------------------------------------------- claims: activation and locking

Inside(t) == locker[t].state = "inside"
Waiting(t) == locker[t].state = "waiting"
Holders == {t \in Threads : Inside(t) /\ locker[t].cglContext # Nil}

\* C6: isActive() called on a thread with no current context returns false.
C6_InactiveWithoutCurrentContext ==
    (op.name = "isActive" /\ current[op.thread] = Nil) => op.res = 0

\* C7, as stated: at most one thread at a time is inside a Locker scope of
\* the NativeContext.
C7_OneThreadInsideLocker ==
    Cardinality({t \in Threads : Inside(t)}) <= 1

\* C7, amended: for a NativeContext whose render context exists, at most one
\* thread at a time is inside a Locker scope, and that thread holds the
\* context's lock; a thread constructing a Locker while another holds one
\* stays in CGLLockContext; destroying a Locker releases the lock of the
\* handle it locked at construction.
C7_LockerExcludes ==
    /\ [](/\ Cardinality(Holders) <= 1
          /\ \A t \in Holders : lockOwner = t
          /\ lockOwner # 0 => lockOwner \in Holders)
    /\ [][\A t \in Threads :
            (Waiting(t) /\ locker[t].cglContext # Nil /\ Holders \ {t} # {})
                => locker'[t] = locker[t]]_vars
    /\ [][\A t \in Threads :
            (t \in Holders /\ locker'[t].state = "none")
                => lockOwner' = 0]_vars

\* One thread is inside its Locker while another waits in CGLLockContext for
\* the same context.
C7_Witness ==
    \E t, u \in Threads :
        /\ t # u
        /\ t \in Holders /\ lockOwner = t
        /\ Waiting(u) /\ locker[u].cglContext = locker[t].cglContext

\* C8: on a live, successfully created context makeActive leaves the render
\* context bound to the owned view, and a true result means isActive() on
\* that thread; isActive() on a thread stops being true only by that thread's
\* deactivateCurrentContext, shutdownOnRenderThread or activation of another
\* context; makeActive returns false exactly when the view has no context,
\* and then changes no thread's current context.
C8_MakeActive ==
    /\ []((op.name = "makeActive" /\ renderContext # Nil /\ pc = "alive")
            => /\ ctxView = TheView
               /\ op.res = 1 => isActive(op.thread))
    /\ [][\A t \in Threads :
            (renderContext # Nil /\ pc' = "alive" /\ isActive(t) /\ ~isActive(t)')
                => /\ op'.thread = t
                   /\ op'.name \in {"deactivateCurrentContext", "shutdownOnRenderThread",
                                    "makeActiveOther"}]_vars
    /\ [][op'.name = "makeActive"
            => /\ op'.res = 0 <=> viewContext = Nil
               /\ op'.res = 0 => current' = current]_vars

\* makeActive rebinds the view and activates the context.
C8_Witness ==
    /\ op.name = "makeActive" /\ op.res = 1
    /\ op.calls = <<"setView", "makeCurrentContext">>
    /\ renderContext = TheContext /\ ctxView = TheView
    /\ isActive(op.thread)
    /\ \E u \in Threads : u # op.thread /\ current[u] = OtherContext

\* n * 1000 / 60 over the integers, truncated toward zero, written as
\* 16 n + (2 n) / 3 so that no intermediate value leaves 32 bits.
ExactSwapTimeMs(n) == 16 * n + TruncDiv(2 * n, 3)

\* C11: setSwapInterval(n) sets minSwapTimeMs to n * 1000 / 60 truncated
\* toward zero for every integer n, forwards n unchanged to the platform
\* context, returns true and leaves lastSwapTime and underrunCounter alone;
\* getSwapInterval() returns the platform's current value and changes no
\* state of the NativeContext.
C11_SetSwapInterval ==
    [][/\ op'.name = "setSwapInterval" =>
            /\ minSwapTimeMs' = ExactSwapTimeMs(op'.arg)
            /\ renderContext # Nil => swapInterval' = op'.arg
            /\ op'.res = 1
            /\ lastSwapTime' = lastSwapTime
            /\ underrunCounter' = underrunCounter
       /\ op'.name = "getSwapInterval" =>
            /\ renderContext # Nil => op'.res = swapInterval
            /\ UNCHANGED <<pacerVars, lifeVars, displayLinkTarget, displayLinkRef>>]_vars

\* The CVDisplayLinks that exist: created and not yet released.
LiveLinks == {id \in LinkIds : links[id].state \in {"stopped", "running"}}

\* C12: in every reachable state at most one display link exists for the
\* NativeContext, and it is the one displayLinkRef names; no link is released
\* more than once; a setDisplayLinkTarget call creates a link only when
\* displayLinkRef is null, and displayLinkRef never moves off a link that has
\* not been released.
C12_SingleSubscription ==
    /\ [](/\ Cardinality(LiveLinks) <= 1
          /\ \A id \in LiveLinks : displayLinkRef = id
          /\ \A id \in LinkIds : links[id].releases <= 1)
    /\ [][/\ Created' > Created => displayLinkRef = nullptr /\ LiveLinks = {}
          /\ (displayLinkRef # nullptr /\ displayLinkRef' # displayLinkRef)
                => links'[displayLinkRef].state = "released"]_vars

\* A second link has been created after the first was released, and a
\* further call with a target has just reused it.
C12_Witness ==
    /\ links[1].releases = 1
    /\ displayLinkRef = 2
    /\ links[2].state = "running"
    /\ IsSetTarget /\ op.arg # nullptr
    /\ ~Called("CVDisplayLinkCreateWithCGDisplay")

\* C13: with a monotonic clock lastSwapTime never decreases across
\* swapBuffers and setSwapInterval calls, and it is written only by a swap
\* made while minSwapTimeMs > 0.
C13_LastSwapTimeMonotonic ==
    [][/\ lastSwapTime' >= lastSwapTime
       /\ (lastSwapTime' # lastSwapTime \/ Measured')
             => op'.name = "swapBuffers" /\ minSwapTimeMs > 0]_vars

\* A paced swap has just moved lastSwapTime forward a third time in a row.
C13_Witness ==
    /\ IsSwap /\ Measured /\ ~DidSleep
    /\ minSwapTimeMs > 0
    /\ fastRun >= 3
    /\ lastSwapTime = clock /\ clock > op.arg * TicksPerMs

\* C14: with m = minSwapTimeMs > 0, a swap whose elapsed time is outside
\* [0, m-3), that is negative or at least m-3, leaves underrunCounter at 0
\* and does not sleep; in particular the counter of a pacer that has been
\* sleeping (underrunCounter = 4) is 0 after the next swap that takes at
\* least m-3 ms.
C14_SlowSwapResets ==
    [][(/\ op'.name = "swapBuffers"
        /\ minSwapTimeMs > 0
        /\ op'.arg < 0 \/ op'.arg >= minSwapTimeMs - 3)
          => /\ underrunCounter' = 0
             /\ clock' = clock
             /\ \A i \in DOMAIN op'.calls : op'.calls[i] # "sleep"]_vars

\* A paced swap has just been measured at m-3 ms or more.
C14_Witness ==
    /\ IsSwap /\ Measured
    /\ minSwapTimeMs > 0
    /\ op.arg >= minSwapTimeMs - 3
    /\ op.arg < IntMax
    /\ underrunCounter = 0 /\ fastRun = 0

\* C18: underrunCounter stays within 0 .. 4; it grows only by one, and only
\* in a paced swap measured fast that does not sleep; a swap that sleeps
\* leaves it alone, and a swap sleeps only when the counter is 4.
C18_UnderrunCounterBounded ==
    /\ [](underrunCounter \in 0 .. 4)
    /\ [][/\ underrunCounter' > underrunCounter
               => /\ underrunCounter' = underrunCounter + 1
                  /\ op'.name = "swapBuffers"
                  /\ minSwapTimeMs > 0
                  /\ op'.arg >= 0 /\ op'.arg < minSwapTimeMs - 3
                  /\ clock' = clock
                  /\ \A i \in DOMAIN op'.calls : op'.calls[i] # "sleep"
          /\ (\E i \in DOMAIN op'.calls : op'.calls[i] = "sleep")
               => underrunCounter = 4 /\ underrunCounter' = 4]_vars

\* A swap has just slept a second time in one run of fast swaps, the counter
\* still at 4.
C18_Witness ==
    /\ IsSwap /\ DidSleep
    /\ underrunCounter = 4
    /\ fastRun >= 6

\* Every sleep lasts m - elapsed ms, more than 3 and at most m.
SleepWithinInterval ==
    (IsSwap /\ DidSleep) =>
        /\ op.res = minSwapTimeMs - op.arg
        /\ op.res > 3 /\ op.res <= minSwapTimeMs

\* C19: after any sequence of setSwapInterval calls minSwapTimeMs is at most
\* 0 or at least 16, so the fast-swap threshold m - 3 is positive whenever
\* pacing is on, and every sleep lasts d = m - elapsed with 3 < d <= m.
C19_SwapTimeRange ==
    /\ minSwapTimeMs <= 0 \/ minSwapTimeMs >= 16
    /\ minSwapTimeMs > 0 => minSwapTimeMs - 3 > 0
    /\ SleepWithinInterval

BoundToSurface == ctxView = TheView \/ viewContext = TheContext

\* C16: teardown stops observing, then detaches the render context from the
\* surface, then clears the surface's context binding, then drops the render
\* context and releases the pixel format, and only then releases the
\* view-attachment handle; in no state is the surface detached or the pixel
\* format released while the render context is still bound to the surface.
C16_TeardownOrder ==
    /\ []((pixelFormat = "released" \/ viewAttachment = "released") => ~BoundToSurface)
    /\ [][/\ observing' # observing => pc = "alive" /\ ~observing'
          /\ pc # "alive" =>
               /\ ctxView' # ctxView => ~observing /\ ctxView' = Nil
               /\ viewContext' # viewContext
                    => ~observing /\ ctxView = Nil /\ viewContext' = Nil
               /\ renderContext' # renderContext
                    => ~observing /\ ~BoundToSurface /\ renderContext' = Nil
          /\ pixelFormat' # pixelFormat
               => ~observing /\ ~BoundToSurface /\ renderContext = Nil
          /\ viewAttachment' # viewAttachment
               => /\ ~observing /\ ~BoundToSurface /\ renderContext = Nil
                  /\ pixelFormat = "released"]_vars

\* The destructor has stopped observing and the render context is still
\* bound to the surface from both sides.
C16_Witness ==
    /\ pc = "line70" /\ ~observing
    /\ ctxView = TheView /\ viewContext = TheContext
    /\ pixelFormat = "held" /\ viewAttachment = "held"

\* ------------------------------------------- claims: the profile attribute

ProfileEntries == {i \in 1 .. Len(Entries) : Entries[i].key = NSOpenGLPFAOpenGLProfile}

\* C17, as stated: a request for openGL3_2 or above puts OpenGLProfile and
\* the 3.2 core value first in the list, and the profile attribute is the
\* first entry exactly when such a version was requested.
C17_ProfileIffVersion ==
    AttribsCreated =>
        /\ request.version >= openGL3_2
             => /\ attribs[0] = NSOpenGLPFAOpenGLProfile
                /\ attribs[1] = NSOpenGLProfileVersion3_2Core
        /\ attribs[0] = NSOpenGLPFAOpenGLProfile <=> request.version >= openGL3_2

\* C17, amended: a build with JUCE_OPENGL3 always puts OpenGLProfile first,
\* followed by the 3.2 core value if the requested version is openGL3_2 or
\* above and by the legacy value otherwise; a build without it emits no
\* profile attribute, whatever the version, and starts with DoubleBuffer.
C17_ProfileByBuild ==
    AttribsCreated =>
        IF juceOpenGL3
        THEN /\ ProfileEntries = {1}
             /\ Entries[1].at = 0
             /\ attribs[0] = 99
             /\ attribs[1] = IF request.version >= openGL3_2 THEN 12800 ELSE 4096
             /\ attribs[2] = 5
        ELSE /\ ProfileEntries = {}
             /\ attribs[0] = 5

\* A JUCE_OPENGL3 build asked for the default version: the list starts with
\* OpenGLProfile and the legacy value.
C17_Witness ==
    /\ AttribsCreated
    /\ juceOpenGL3
    /\ request.version < openGL3_2
    /\ attribs[0] = NSOpenGLPFAOpenGLProfile
    /\ attribs[1] = NSOpenGLProfileVersionLegacy

\* ------------------------------------------- claims: the attribute buffer

\* The indices createAttribs wrote for the request, in the order written.
Written ==
    createAttribs(ZeroAttribs, request.version, request.pixFormat,
                  request.shouldUseMultisampling, juceOpenGL3).writes

\* C20: for every version, pixel format and multisampling flag createAttribs
\* writes at most 20 entries (2 profile, 3 flags, 10 for the five sizes, 5
\* multisample) into the 64-entry buffer, writes exactly the indices
\* 0 .. numAttribs - 1 in increasing order, never past the buffer, and every
\* entry from numAttribs on is still zero, so the list is terminated.
C20_AttribsFitBuffer ==
    AttribsCreated =>
        /\ numAttribs <= 20
        /\ numAttribs = (IF juceOpenGL3 THEN 2 ELSE 0) + 3 + 10
                           + (IF request.shouldUseMultisampling THEN 5 ELSE 0)
        /\ op.res = 0
        /\ Written = [i \in 1 .. numAttribs |-> i - 1]
        /\ numAttribs < 64
        /\ \A i \in numAttribs .. 63 : attribs[i] = 0

\* The longest list: profile, fixed block and multisample block, twenty
\* entries with a non-zero last one.
C20_Witness ==
    /\ AttribsCreated
    /\ numAttribs = 20
    /\ attribs[0] = NSOpenGLPFAOpenGLProfile
    /\ attribs[19] = 4
    /\ attribs[20] = 0
====
